---- MODULE Spec2Model ----
(***************************************************************************)
(* Model of builder.py, the release-packaging tool of GraXpertSuite.       *)
(*                                                                         *)
(* Text (file names, paths, template text, versions, dates) is a sequence  *)
(* of one-character strings, so that startswith, basename, join and        *)
(* str.replace are computed character by character as Python computes     *)
(* them.  The file system is split in two: `disk` is the set of source     *)
(* files that exist (what os.path.exists answers for a listed path) and    *)
(* `tree` maps every existing path of the repository/ area to its content. *)
(***************************************************************************)
EXTENDS Naturals, Sequences, FiniteSets

VARIABLES
    pc,            \* position of the __main__ loop
    idx,           \* index of the manifest the for loop is at (1..2, 3 = done)
    helperJs,      \* src/scripts/GraXpertSuite/Helper.js
    changeLogTxt,  \* src/scripts/GraXpertSuite/change-log.txt
    manifests,     \* updates.xri and updates-suite.xri
    disk,          \* listed source files that exist
    today,         \* datetime.now() as YYYYMMDD
    tree,          \* the repository/ area: path -> content
    printed,       \* lines printed by the current attempt
    version,       \* global `version` (read by replace_and_save)
    changelog,     \* local `changelog` of __main__
    probe          \* arguments and outcome of a direct call of one function

vars == <<pc, idx, helperJs, changeLogTxt, manifests, disk, today, tree,
          printed, version, changelog, probe>>

(***************************************************************************)
(* Bounds of the model.                                                    *)
(***************************************************************************)
MaxLen == 3          \* longest file list handed to save_list_to_zip directly
MaxManifestLen == 1  \* longest <remove> list of a manifest in the build loop
MaxPieces == 2       \* longest template, in pieces, handed to replace_and_save

(***************************************************************************)
(* Text helpers (Python str operations).                                   *)
(***************************************************************************)
StartsWith(s, p) ==
    /\ Len(s) >= Len(p)
    /\ SubSeq(s, 1, Len(p)) = p

\* does `tok` occur in s at position i
OccursAt(s, tok, i) ==
    /\ i >= 1
    /\ i + Len(tok) - 1 <= Len(s)
    /\ SubSeq(s, i, i + Len(tok) - 1) = tok

Contains(s, tok) == \E i \in 1..Len(s) : OccursAt(s, tok, i)

\* the leftmost occurrence of `tok` in s at or after position i, 0 when none
FirstOccurrence(s, tok, i) ==
    LET at == {j \in i..Len(s) : OccursAt(s, tok, j)}
    IN  IF at = {} THEN 0 ELSE CHOOSE j \in at : \A k \in at : j <= k

RECURSIVE ReplaceFrom(_, _, _, _)
\* str.replace(old, new) scanning from position i: leftmost, non-overlapping,
\* the inserted text is not scanned again
ReplaceFrom(s, old, new, i) ==
    LET j == FirstOccurrence(s, old, i)
    IN  IF j = 0 THEN SubSeq(s, i, Len(s))
        ELSE SubSeq(s, i, j - 1) \o new \o ReplaceFrom(s, old, new, j + Len(old))

Replace(s, old, new) == ReplaceFrom(s, old, new, 1)

\* position of the last "/" of p at or before i, 0 when none
LastSlash(p, i) ==
    LET at == {j \in 1..i : p[j] = "/"}
    IN  IF at = {} THEN 0 ELSE CHOOSE j \in at : \A k \in at : k <= j

\* os.path.basename
Basename(p) == SubSeq(p, LastSlash(p, Len(p)) + 1, Len(p))

\* os.path.dirname
Dirname(p) ==
    IF LastSlash(p, Len(p)) = 0 THEN <<>>
    ELSE SubSeq(p, 1, LastSlash(p, Len(p)) - 1)

\* os.path.join of a non-empty directory and a relative name
Join(a, b) == a \o <<"/">> \o b

RECURSIVE Strip(_)
\* str.strip() for blanks
Strip(s) ==
    IF s = <<>> THEN s
    ELSE IF Head(s) = " " THEN Strip(Tail(s))
    ELSE IF s[Len(s)] = " " THEN Strip(SubSeq(s, 1, Len(s) - 1))
    ELSE s

(***************************************************************************)
(* Names the program uses.                                                 *)
(***************************************************************************)
\* GraXpertSuite is the text "GraXpertSuite"
GraXpertSuite == <<"G","r","a","X","p","e","r","t","S","u","i","t","e">>
\* SrcScripts is the text "src/scripts/"
SrcScripts == <<"s","r","c","/","s","c","r","i","p","t","s","/">>
\* DocScripts is the text "doc/scripts/"
DocScripts == <<"d","o","c","/","s","c","r","i","p","t","s","/">>
\* GXSPrefix is the text "src/scripts/GraXpertSuite/GXS"
GXSPrefix == <<"s","r","c","/","s","c","r","i","p","t","s","/","G","r","a","X","p","e","r","t","S","u","i","t","e","/","G","X","S">>
\* Repository is the text "repository"
Repository == <<"r","e","p","o","s","i","t","o","r","y">>
OutputRoot == Join(Repository, <<"u","p","d","a","t","e","-","b","e","t","a">>)
\* UpdatesXri is the text "updates.xri"
UpdatesXri == <<"u","p","d","a","t","e","s",".","x","r","i">>
\* UpdatesSuiteXri is the text "updates-suite.xri"
UpdatesSuiteXri == <<"u","p","d","a","t","e","s","-","s","u","i","t","e",".","x","r","i">>
ManifestNames == <<UpdatesXri, UpdatesSuiteXri>>
\* AllInOneZip is the text "GraXpert-All-In-One.zip"
AllInOneZip == <<"G","r","a","X","p","e","r","t","-","A","l","l","-","I","n","-","O","n","e",".","z","i","p">>
\* SuiteZip is the text "GraXpert-Suite.zip"
SuiteZip == <<"G","r","a","X","p","e","r","t","-","S","u","i","t","e",".","z","i","p">>
\* IndexHtml is the text "index.html"
IndexHtml == <<"i","n","d","e","x",".","h","t","m","l">>

\* TokZipFilename is the text "_ZIP_FILENAME_"
TokZipFilename == <<"_","Z","I","P","_","F","I","L","E","N","A","M","E","_">>
\* TokSha1 is the text "_SHA1_"
TokSha1 == <<"_","S","H","A","1","_">>
\* TokDate is the text "_DATE_"
TokDate == <<"_","D","A","T","E","_">>
\* TokChangelog is the text "_CHANGELOG_"
TokChangelog == <<"_","C","H","A","N","G","E","L","O","G","_">>

(***************************************************************************)
(* Source files a manifest may list.                                       *)
(***************************************************************************)
\* FHelper is the text "src/scripts/GraXpertSuite/H.js"
FHelper == <<"s","r","c","/","s","c","r","i","p","t","s","/","G","r","a","X","p","e","r","t","S","u","i","t","e","/","H",".","j","s">>
\* FGxs is the text "src/scripts/GraXpertSuite/GXSL.js"
FGxs == <<"s","r","c","/","s","c","r","i","p","t","s","/","G","r","a","X","p","e","r","t","S","u","i","t","e","/","G","X","S","L",".","j","s">>
\* FDoc is the text "doc/scripts/d.html"
FDoc == <<"d","o","c","/","s","c","r","i","p","t","s","/","d",".","h","t","m","l">>
\* FBad is the text "src/scripts/GraXpertSuiteX/a.js"
FBad == <<"s","r","c","/","s","c","r","i","p","t","s","/","G","r","a","X","p","e","r","t","S","u","i","t","e","X","/","a",".","j","s">>
\* OtherFolder is the text "Other"
OtherFolder == <<"O","t","h","e","r">>
Dates == {<<"2","0","2","4","0","1","3","1">>, <<"2","0","2","4","0","2","0","1">>}
\* TimeOfDay is the text "093000"
TimeOfDay == <<"0","9","3","0","0","0">>

(***************************************************************************)
(* The file system of the repository/ area.                                *)
(***************************************************************************)
Dir == [kind |-> "dir", entries |-> <<>>, text |-> <<>>, fresh |-> TRUE]
ZipOf(names) == [kind |-> "zip", entries |-> names, text |-> <<>>, fresh |-> TRUE]
TextOf(t) == [kind |-> "text", entries |-> <<>>, text |-> t, fresh |-> TRUE]

Exists(fs, p) == p \in DOMAIN fs
IsDir(fs, p) == Exists(fs, p) /\ fs[p].kind = "dir"
IsFile(fs, p) == Exists(fs, p) /\ fs[p].kind # "dir"

\* fs with path p holding content c
Put(fs, p, c) == [q \in DOMAIN fs \cup {p} |-> IF q = p THEN c ELSE fs[q]]

\* shutil.rmtree(p): p and everything below it
RmTree(fs, p) ==
    [q \in {r \in DOMAIN fs : r # p /\ ~StartsWith(r, p \o <<"/">>)} |-> fs[q]]

RECURSIVE MakeDirs(_, _)
\* os.makedirs(p, exist_ok=True): p and its missing ancestors
MakeDirs(fs, p) ==
    IF p = <<>> \/ Exists(fs, p) THEN fs
    ELSE Put(MakeDirs(fs, Dirname(p)), p, Dir)

Line(k, a) == [kind |-> k, arg |-> a]
NoError == Line("", <<>>)

(***************************************************************************)
(* save_list_to_zip                                                        *)
(***************************************************************************)
\* PathAllowed with the package folder left out of the rule
PathAllowed_AnyFolder(file, script_folder) ==
    \/ StartsWith(file, SrcScripts)
    \/ StartsWith(file, DocScripts)

\* line 67: the path-prefix rule
PathAllowed(file, script_folder) ==
    \/ StartsWith(file, SrcScripts \o script_folder \o <<"/">>)
    \/ StartsWith(file, DocScripts)

\* IsDeletion without the exception for the GXS subtree
IsDeletion_AnyMissing(file, dsk) == file \notin dsk

\* line 69: a missing file outside the GXS subtree is a deletion
IsDeletion(file, dsk) == file \notin dsk /\ ~StartsWith(file, GXSPrefix)

\* line 71: a missing file inside the GXS subtree is an error
IsMissingRequired(file, dsk) == file \notin dsk /\ StartsWith(file, GXSPrefix)

\* IsDuplicate that looks at the last accepted file only
IsDuplicate_LastOnly(file, local_files) ==
    local_files # <<>> /\ local_files[Len(local_files)] = file

\* line 73: file in local_files
IsDuplicate(file, local_files) == \E k \in 1..Len(local_files) : local_files[k] = file

RECURSIVE CheckPaths(_, _, _, _, _, _)
\* lines 63-76: the validation loop, from entry i on
CheckPaths(files_list, script_folder, dsk, i, local_files, out) ==
    IF i > Len(files_list)
    THEN [err |-> NoError, local_files |-> local_files, printed |-> out]
    ELSE LET file == files_list[i] IN
         IF file = <<>>
         THEN CheckPaths(files_list, script_folder, dsk, i + 1, local_files, out)
         ELSE IF ~PathAllowed(file, script_folder)
         THEN [err |-> Line("Invalid path", file), local_files |-> local_files, printed |-> out]
         ELSE IF IsDeletion(file, dsk)
         THEN CheckPaths(files_list, script_folder, dsk, i + 1, local_files,
                         Append(out, Line("Delete", file)))
         ELSE IF IsMissingRequired(file, dsk)
         THEN [err |-> Line("File not found", file), local_files |-> local_files, printed |-> out]
         ELSE IF IsDuplicate(file, local_files)
         THEN [err |-> Line("Duplicate file", file), local_files |-> local_files, printed |-> out]
         ELSE CheckPaths(files_list, script_folder, dsk, i + 1, Append(local_files, file), out)

RECURSIVE ArcName(_)
\* the name zipf.write(file) stores a file under: the path without leading
\* separators
ArcName(file) ==
    IF file # <<>> /\ Head(file) = "/" THEN ArcName(Tail(file)) ELSE file

\* ZipEntries storing base names, as the flattened archive of older revisions
ZipEntries_Flattened(local_files) ==
    [k \in 1..Len(local_files) |-> Basename(local_files[k])]

\* lines 86-89: the archive's entries, one zipf.write per accepted file
ZipEntries(local_files) == [k \in 1..Len(local_files) |-> ArcName(local_files[k])]

\* lines 79-83: "<YYYYMMDD>_<script_folder>.zip"
ZipFileDate(date, script_folder) == date \o <<"_">> \o script_folder \o <<".","z","i","p">>

\* lines 92-95: the manual-install archive's name
ManualZip(output_directory) ==
    IF Basename(output_directory) = <<"g","r","a","x","p","e","r","t">> THEN AllInOneZip ELSE SuiteZip

\* line 97: shutil.copy(src, dst)
Copy(fs, src, dst) == Put(fs, dst, fs[src])

\* lines 60-101; the result carries the file system after the call, the lines
\* printed, and either the returned path or the ValueError
save_list_to_zip(files_list, script_folder, output_directory, dsk, fs, date) ==
    LET chk == CheckPaths(files_list, script_folder, dsk, 1, <<>>, <<>>)
        zip_file_path == Join(output_directory, ZipFileDate(date, script_folder))
        manual_path == Join(output_directory, ManualZip(output_directory))
        out1 == Append(chk.printed, Line("Build auto", ZipFileDate(date, script_folder)))
        out2 == out1 \o [k \in 1..Len(chk.local_files) |-> Line("+", chk.local_files[k])]
        out3 == Append(out2, Line("Build manual", ManualZip(output_directory)))
        fs1 == Put(fs, zip_file_path, ZipOf(ZipEntries(chk.local_files)))
    IN  IF chk.err # NoError
        THEN [ok |-> FALSE, err |-> chk.err, printed |-> chk.printed, fs |-> fs, ret |-> <<>>]
        ELSE IF ~IsDir(fs, output_directory)
        THEN [ok |-> FALSE, err |-> Line("No such file or directory", zip_file_path),
              printed |-> out1, fs |-> fs, ret |-> <<>>]
        ELSE [ok |-> TRUE, err |-> NoError, printed |-> out3,
              fs |-> Copy(fs1, zip_file_path, manual_path), ret |-> zip_file_path]

(***************************************************************************)
(* extract_version, extract_version_changelog.  A source text file is held *)
(* as what the function's regular expression finds in it: no match, or the *)
(* captured groups.  A file that is absent cannot be opened.               *)
(***************************************************************************)
\* V1 is the text "1.0.0"
V1 == <<"1",".","0",".","0">>
\* V2 is the text "1.0.1"
V2 == <<"1",".","0",".","1">>
Absent == [kind |-> "absent", version |-> <<>>, body |-> <<>>]
NoMatch == [kind |-> "nomatch", version |-> <<>>, body |-> <<>>]
Found(v, b) == [kind |-> "match", version |-> v, body |-> b]

\* lines 9-19
extract_version(file) ==
    IF file.kind = "absent" THEN [status |-> "FileNotFoundError", version |-> <<>>]
    ELSE IF file.kind = "nomatch" THEN [status |-> "Version not found", version |-> <<>>]
    ELSE [status |-> "ok", version |-> file.version]

\* lines 21-34; the body is group 2 after the blank-line filter of line 32
extract_version_changelog(file) ==
    IF file.kind = "absent"
    THEN [status |-> "FileNotFoundError", version |-> <<>>, changelog |-> <<>>]
    ELSE IF file.kind = "nomatch"
    THEN [status |-> "Change log extract failed", version |-> <<>>, changelog |-> <<>>]
    ELSE [status |-> "ok", version |-> Strip(file.version), changelog |-> file.body]

(***************************************************************************)
(* extract_files_from_remove_section.  A manifest file is absent, not      *)
(* well-formed XML, XML without a <remove> element, or XML whose <remove>  *)
(* text splits on "," into `items` (at least one, as str.split gives);     *)
(* `text` is the file's text as the descriptor template.                   *)
(***************************************************************************)
RECURSIVE StripAndDrop(_)
\* line 48: [file.strip() for file in ... if file.strip()]
StripAndDrop(items) ==
    IF items = <<>> THEN <<>>
    ELSE IF Strip(Head(items)) = <<>> THEN StripAndDrop(Tail(items))
    ELSE <<Strip(Head(items))>> \o StripAndDrop(Tail(items))

\* lines 36-58: every failure leaves as a ValueError
extract_files_from_remove_section(file) ==
    IF file.kind = "absent" THEN [ok |-> FALSE, err |-> "No such file", files_list |-> <<>>]
    ELSE IF file.kind = "badxml" THEN [ok |-> FALSE, err |-> "not well-formed", files_list |-> <<>>]
    ELSE IF file.kind = "noremove"
    THEN [ok |-> FALSE, err |-> "<remove> section not found in the XML.", files_list |-> <<>>]
    ELSE IF StripAndDrop(file.items) = <<>>
    THEN [ok |-> FALSE, err |-> "No valid files found in the <remove> section.",
          files_list |-> <<>>]
    ELSE [ok |-> TRUE, err |-> "", files_list |-> StripAndDrop(file.items)]

(***************************************************************************)
(* replace_and_save                                                        *)
(***************************************************************************)
Sha1HexLen == 40
\* HexDigits is the text "0123456789abcdef"
HexDigits == <<"0","1","2","3","4","5","6","7","8","9","a","b","c","d","e","f">>

\* lines 122-126: hexdigest() of the archive: 40 lower-case hexadecimal digits
\* that depend on the archive's content
Sha1Hex(file) ==
    [i \in 1..Sha1HexLen |-> HexDigits[((Len(file.entries) * 7 + i) % 16) + 1]]

\* line 118: strftime("%Y%m%d%H%M%S")
CurrentDate(date) == date \o TimeOfDay

\* ParagraphBreak is the text "</p>\n\t\t\t<p>"
ParagraphBreak == <<"<","/","p",">","\n","\t","\t","\t","<","p",">">>

\* line 142: the text _CHANGELOG_ is replaced by
ChangelogHtml(ver, log) ==
    <<"C","h","a","n","g","e","l","o","g"," ","v">> \o ver \o <<":">> \o ParagraphBreak \o Replace(log, <<"\n">>, ParagraphBreak)

\* Substitute without the _DATE_ substitution
Substitute_NoDate(text, zip_name, sha1, current_date, ver, log) ==
    Replace(Replace(Replace(text, TokZipFilename, zip_name), TokSha1, sha1),
            TokChangelog, ChangelogHtml(ver, log))

\* lines 133-142: the four substitutions, in the source's order
Substitute(text, zip_name, sha1, current_date, ver, log) ==
    LET c1 == Replace(text, TokZipFilename, zip_name)
        c2 == Replace(c1, TokSha1, sha1)
        c3 == Replace(c2, TokDate, current_date)
    IN  Replace(c3, TokChangelog, ChangelogHtml(ver, log))

\* lines 104-151; source is the template file (a manifest record), fs the
\* repository/ area, ver the global `version`
replace_and_save(source, dest_directory, zip_file_path, log, ver, fs, date) ==
    IF source.kind = "absent"
    THEN [outcome |-> "no source", fs |-> fs,
          printed |-> <<Line("does not exist", <<>>)>>]
    ELSE IF ~IsFile(fs, zip_file_path)
    THEN [outcome |-> "no zip", fs |-> fs,
          printed |-> <<Line("Build update file", <<>>), Line("does not exist", zip_file_path)>>]
    ELSE IF ~IsDir(fs, dest_directory)
    THEN [outcome |-> "FileNotFoundError", fs |-> fs,
          printed |-> <<Line("Build update file", <<>>), Line("+ ZIP file", zip_file_path)>>]
    ELSE [outcome |-> "written",
          fs |-> Put(fs, Join(dest_directory, UpdatesXri),
                     TextOf(Substitute(source.text, Basename(zip_file_path),
                                       Sha1Hex(fs[zip_file_path]), CurrentDate(date), ver, log))),
          printed |-> <<Line("Build update file", <<>>), Line("+ ZIP file", zip_file_path),
                        Line("===>", Join(dest_directory, UpdatesXri))>>]

(***************************************************************************)
(* __main__: one pass of the while loop, in steps.                         *)
(***************************************************************************)
BuildFailed == Line("BUILD FAILED!!!", <<>>)
SuccessNotice == Line("RUN PIXINSIGHT CODE SIGNING AGAIN TO SIGN updates.xri FILES", <<>>)
GetVersionLine == Line("Get version and changelog", <<>>)

\* line 172: the package's output subdirectory
Destination(updates_xml_file) ==
    Join(OutputRoot, Replace(Replace(updates_xml_file, <<"u","p","d","a","t","e","s">>, <<"g","r","a","x","p","e","r","t">>), <<".","x","r","i">>, <<>>))

\* VersionCheck without the comparison of the two versions
VersionCheck_NoCompare(helper, log) ==
    LET ev == extract_version(helper)
        ec == extract_version_changelog(log)
    IN  IF ev.status = "FileNotFoundError"
        THEN [status |-> "crash", err |-> ev.status, version |-> version, changelog |-> changelog]
        ELSE IF ev.status # "ok"
        THEN [status |-> "ValueError", err |-> ev.status, version |-> version,
              changelog |-> changelog]
        ELSE IF ec.status # "ok"
        THEN [status |-> "ValueError", err |-> ec.status, version |-> ev.version,
              changelog |-> changelog]
        ELSE [status |-> "ok", err |-> "", version |-> ev.version, changelog |-> ec.changelog]

\* lines 159-162: the outcome of the extraction and of the version comparison
VersionCheck(helper, log) ==
    LET ev == extract_version(helper)
        ec == extract_version_changelog(log)
    IN  IF ev.status = "FileNotFoundError"
        THEN [status |-> "crash", err |-> ev.status, version |-> version, changelog |-> changelog]
        ELSE IF ev.status # "ok"
        THEN [status |-> "ValueError", err |-> ev.status, version |-> version,
              changelog |-> changelog]
        ELSE IF ec.status = "FileNotFoundError"
        THEN [status |-> "crash", err |-> ec.status, version |-> ev.version,
              changelog |-> changelog]
        ELSE IF ec.status # "ok"
        THEN [status |-> "ValueError", err |-> ec.status, version |-> ev.version,
              changelog |-> changelog]
        ELSE IF ec.version # ev.version
        THEN [status |-> "ValueError", err |-> "Wrong version", version |-> ev.version,
              changelog |-> ec.changelog]
        ELSE [status |-> "ok", err |-> "", version |-> ev.version, changelog |-> ec.changelog]

\* Report that prints the message only
Report_NoBanner(out, err) == Append(out, err)

\* lines 178-180: the except clause prints the message and the banner
Report(out, err) == out \o <<err, BuildFailed>>

\* lines 158-162
GetVersion ==
    /\ pc = "extract"
    /\ LET r == VersionCheck(helperJs, changeLogTxt) IN
       /\ version' = r.version
       /\ changelog' = r.changelog
       /\ printed' = IF r.status = "ValueError"
                     THEN Report(Append(printed, GetVersionLine), Line(r.err, <<>>))
                     ELSE Append(printed, GetVersionLine)
       /\ pc' = IF r.status = "ok" THEN "clear"
                ELSE IF r.status = "ValueError" THEN "input"
                ELSE "crashed"
    /\ UNCHANGED <<idx, helperJs, changeLogTxt, manifests, disk, today, tree, probe>>

\* ClearedTree that leaves the output root as it is
ClearedTree_Keep(fs) == fs

\* lines 165-167: the output root is deleted when it exists
ClearedTree(fs) == IF Exists(fs, OutputRoot) THEN RmTree(fs, OutputRoot) ELSE fs

ClearOutput ==
    /\ pc = "clear"
    /\ tree' = ClearedTree(tree)
    /\ pc' = "packages"
    /\ idx' = 1
    /\ UNCHANGED <<helperJs, changeLogTxt, manifests, disk, today, printed, version,
                   changelog, probe>>

\* lines 171-176: the body of the for loop for one manifest
Package(updates_xml_file, file, fs, dsk, date, log, ver) ==
    LET parsed == extract_files_from_remove_section(file)
        destination == Destination(updates_xml_file)
        fs1 == MakeDirs(fs, destination)
        zipped == save_list_to_zip(parsed.files_list, GraXpertSuite, destination, dsk, fs1, date)
        saved == replace_and_save(file, destination, zipped.ret, log, ver, zipped.fs, date)
    IN  IF ~parsed.ok
        THEN [status |-> "ValueError", err |-> Line("XML Parsing", <<>>), fs |-> fs,
              printed |-> <<>>, descriptor |-> "none"]
        ELSE IF parsed.files_list = <<>>
        THEN [status |-> "ok", err |-> NoError, fs |-> fs1, printed |-> <<>>,
              descriptor |-> "none"]
        ELSE IF ~zipped.ok
        THEN [status |-> "ValueError", err |-> zipped.err, fs |-> zipped.fs,
              printed |-> zipped.printed, descriptor |-> "none"]
        ELSE IF saved.outcome = "FileNotFoundError"
        THEN [status |-> "crash", err |-> NoError, fs |-> saved.fs,
              printed |-> zipped.printed \o saved.printed, descriptor |-> saved.outcome]
        ELSE [status |-> "ok", err |-> NoError, fs |-> saved.fs,
              printed |-> zipped.printed \o saved.printed, descriptor |-> saved.outcome]

CreatePackage ==
    /\ pc = "packages"
    /\ idx <= Len(ManifestNames)
    /\ LET r == Package(ManifestNames[idx], manifests[idx], tree, disk, today, changelog, version)
       IN  /\ tree' = r.fs
           /\ printed' = IF r.status = "ValueError"
                         THEN Report(printed \o r.printed, r.err)
                         ELSE printed \o r.printed
           /\ pc' = IF r.status = "ok" THEN "packages"
                    ELSE IF r.status = "ValueError" THEN "input"
                    ELSE "crashed"
           /\ idx' = IF r.status = "ok" THEN idx + 1 ELSE idx
    /\ UNCHANGED <<helperJs, changeLogTxt, manifests, disk, today, version, changelog, probe>>

\* line 177
Notice ==
    /\ pc = "packages"
    /\ idx > Len(ManifestNames)
    /\ printed' = Append(printed, SuccessNotice)
    /\ pc' = "input"
    /\ UNCHANGED <<idx, helperJs, changeLogTxt, manifests, disk, today, tree, version,
                   changelog, probe>>

\* what an earlier attempt left in the repository/ area: the program never reads
\* it, so only its kind is kept
Stale(fs) ==
    [p \in DOMAIN fs |->
        IF StartsWith(p, OutputRoot)
        THEN [kind |-> fs[p].kind, entries |-> <<>>, text |-> <<>>, fresh |-> FALSE]
        ELSE fs[p]]

(***************************************************************************)
(* The operator's side: while the program waits in input(), an input file  *)
(* is edited or the day passes.                                            *)
(***************************************************************************)
SeqsUpTo(S, n) == UNION {[1..k -> S] : k \in 0..n}

\* ManifestTemplate is the text "f=_ZIP_FILENAME_ s=_SHA1_ d=_DATE_ <p>_CHANGELOG_</p>"
ManifestTemplate == <<"f","=","_","Z","I","P","_","F","I","L","E","N","A","M","E","_"," ","s","=","_","S","H","A","1","_"," ","d","=","_","D","A","T","E","_"," ","<","p",">","_","C","H","A","N","G","E","L","O","G","_","<","/","p",">">>
Manifest(k, items) == [kind |-> k, items |-> items, text |-> ManifestTemplate]
ManifestItems == {<<" ">>, <<" ","s","r","c","/","s","c","r","i","p","t","s","/","G","r","a","X","p","e","r","t","S","u","i","t","e","/","H",".","j","s"," ">>, FGxs}
ManifestContents ==
    {Manifest("absent", <<>>), Manifest("badxml", <<>>), Manifest("noremove", <<>>)}
    \cup {Manifest("ok", items) : items \in SeqsUpTo(ManifestItems, MaxManifestLen) \ {<<>>}}
HelperContents == {Absent, NoMatch, Found(V1, <<>>), Found(V2, <<>>)}
ChangelogContents == {NoMatch, Found(V1, <<"f","i","x"," ","a","\n","f","i","x"," ","b">>)}
MainDisks == {{FHelper, FGxs}, {}}

\* repository/ with the static index.html asset, before any build
BaseTree == [p \in {Repository, Join(Repository, IndexHtml)} |->
                IF p = Repository THEN Dir ELSE TextOf(<<"<","h","t","m","l","/",">">>)]

\* the same with what an earlier build of another day and of an older revision
\* left behind
LeftoverTree ==
    Stale(Put(Put(Put(Put(BaseTree, OutputRoot, Dir),
                          Join(OutputRoot, IndexHtml), TextOf(<<>>)),
                      Destination(UpdatesXri), Dir),
                  Join(Destination(UpdatesXri), ZipFileDate(<<"2","0","2","3","1","2","2","4">>, GraXpertSuite)),
                  ZipOf(<<>>)))

NoProbe == [fn |-> "none"]

Init ==
    /\ pc = "extract"
    /\ idx = 1
    /\ helperJs \in HelperContents
    /\ changeLogTxt \in ChangelogContents
    /\ manifests \in [1..Len(ManifestNames) -> ManifestContents]
    /\ disk \in MainDisks
    /\ today \in Dates
    /\ tree \in {BaseTree, LeftoverTree}
    /\ printed = <<>>
    /\ version = <<>>
    /\ changelog = <<>>
    /\ probe = NoProbe

\* what the operator may have done when input() returns: nothing, or one edit
OperatorEdits ==
    \/ UNCHANGED <<helperJs, changeLogTxt, manifests, disk, today>>
    \/ /\ \E c \in HelperContents \ {helperJs} : helperJs' = c
       /\ UNCHANGED <<changeLogTxt, manifests, disk, today>>
    \/ /\ \E c \in ChangelogContents \ {changeLogTxt} : changeLogTxt' = c
       /\ UNCHANGED <<helperJs, manifests, disk, today>>
    \/ /\ \E i \in 1..Len(ManifestNames) : \E c \in ManifestContents \ {manifests[i]} :
             manifests' = [manifests EXCEPT ![i] = c]
       /\ UNCHANGED <<helperJs, changeLogTxt, disk, today>>
    \/ /\ \E d \in MainDisks \ {disk} : disk' = d
       /\ UNCHANGED <<helperJs, changeLogTxt, manifests, today>>
    \/ /\ \E d \in Dates \ {today} : today' = d
       /\ UNCHANGED <<helperJs, changeLogTxt, manifests, disk>>

\* line 181: input() returns and the loop starts over
Input ==
    /\ pc = "input"
    /\ pc' = "extract"
    /\ idx' = 1
    /\ printed' = <<>>
    /\ tree' = Stale(tree)
    /\ OperatorEdits
    /\ UNCHANGED <<version, changelog, probe>>

Next ==
    \/ GetVersion
    \/ ClearOutput
    \/ CreatePackage
    \/ Notice
    \/ Input

Spec == Init /\ [][Next]_vars

(***************************************************************************)
(* save_list_to_zip called on its own, on every file list up to MaxLen     *)
(* entries, with both package folders' output directories in place.        *)
(***************************************************************************)
ZipItems == {<<>>, FHelper, FGxs, FDoc, FBad}
ZipDisks == SUBSET {FHelper, FGxs, FDoc}
ZipTree == MakeDirs(MakeDirs(BaseTree, Destination(UpdatesXri)), Destination(UpdatesSuiteXri))

InitZip ==
    /\ pc = "call"
    /\ idx = 1
    /\ helperJs = NoMatch
    /\ changeLogTxt = NoMatch
    /\ manifests = [i \in 1..Len(ManifestNames) |-> Manifest("absent", <<>>)]
    /\ disk \in ZipDisks
    /\ today \in Dates
    /\ tree = ZipTree
    /\ printed = <<>>
    /\ version = <<>>
    /\ changelog = <<>>
    /\ \E l \in SeqsUpTo(ZipItems, MaxLen) :
       \E f \in {GraXpertSuite, OtherFolder} :
       \E d \in {Destination(UpdatesXri), Destination(UpdatesSuiteXri)} :
          probe = [fn |-> "save_list_to_zip", files_list |-> l, script_folder |-> f,
                   output_directory |-> d, ok |-> FALSE, err |-> NoError, ret |-> <<>>]

CallZip ==
    /\ pc = "call"
    /\ probe.fn = "save_list_to_zip"
    /\ LET r == save_list_to_zip(probe.files_list, probe.script_folder,
                                 probe.output_directory, disk, tree, today)
       IN  /\ tree' = r.fs
           /\ printed' = r.printed
           /\ probe' = [probe EXCEPT !.ok = r.ok, !.err = r.err, !.ret = r.ret]
    /\ pc' = "returned"
    /\ UNCHANGED <<idx, helperJs, changeLogTxt, manifests, disk, today, version, changelog>>

SpecZip == InitZip /\ [][CallZip]_vars

(***************************************************************************)
(* replace_and_save called on its own, on templates of up to MaxPieces     *)
(* pieces and on changelog texts with and without tokens.                  *)
(***************************************************************************)
Pieces == {TokZipFilename, TokSha1, TokDate, TokChangelog, <<"x">>, <<"_">>, <<"_","D","A","T","E">>,
           <<"H","A","N","G","E","L","O","G","_">>, <<"_","S","H","A">>, <<"1","_">>}

RECURSIVE Concat(_)
Concat(ps) == IF ps = <<>> THEN <<>> ELSE Head(ps) \o Concat(Tail(ps))

Templates == {Concat(ps) : ps \in SeqsUpTo(Pieces, MaxPieces)}
Changelogs == {<<"f","i","x"," ","a">>, <<"f","i","x"," ","a","\n","f","i","x"," ","b">>, <<"s","e","e"," ","_","D","A","T","E","_">>, <<"x","_","C">>, <<"_","C","H","A","N","G","E","L","O","G","_">>}
ProbeDest == Destination(UpdatesXri)
ProbeZip == Join(ProbeDest, ZipFileDate(<<"2","0","2","4","0","1","3","1">>, GraXpertSuite))

InitReplace ==
    /\ pc = "call"
    /\ idx = 1
    /\ helperJs = NoMatch
    /\ changeLogTxt = NoMatch
    /\ manifests = [i \in 1..Len(ManifestNames) |-> Manifest("absent", <<>>)]
    /\ disk = {}
    /\ today \in Dates
    /\ tree \in {ZipTree, Put(ZipTree, ProbeZip, ZipOf(<<FHelper>>))}
    /\ printed = <<>>
    /\ version \in {V1, V2}
    /\ changelog \in Changelogs
    /\ \E t \in Templates : \E k \in {"ok", "absent"} :
          probe = [fn |-> "replace_and_save",
                   source |-> [kind |-> k, items |-> <<>>, text |-> t],
                   outcome |-> ""]

CallReplace ==
    /\ pc = "call"
    /\ probe.fn = "replace_and_save"
    /\ LET r == replace_and_save(probe.source, ProbeDest, ProbeZip, changelog, version,
                                 tree, today)
       IN  /\ tree' = r.fs
           /\ printed' = r.printed
           /\ probe' = [probe EXCEPT !.outcome = r.outcome]
    /\ pc' = "returned"
    /\ UNCHANGED <<idx, helperJs, changeLogTxt, manifests, disk, today, version, changelog>>

SpecReplace == InitReplace /\ [][CallReplace]_vars

(***************************************************************************)
(* Vocabulary of the properties, stated on the inputs and on the files     *)
(* and lines a call leaves, not on the operators above.                    *)
(***************************************************************************)
\* TextGXS is the text "src/scripts/GraXpertSuite/GXS"
TextGXS == <<"s","r","c","/","s","c","r","i","p","t","s","/","G","r","a","X","p","e","r","t","S","u","i","t","e","/","G","X","S">>
\* PathSuiteIndex is the text "repository/update-beta/graxpert-suite/index.html"
PathSuiteIndex == <<"r","e","p","o","s","i","t","o","r","y","/","u","p","d","a","t","e","-","b","e","t","a","/","g","r","a","x","p","e","r","t","-","s","u","i","t","e","/","i","n","d","e","x",".","h","t","m","l">>
\* PathGraxpertIndex is the text "repository/update-beta/graxpert/index.html"
PathGraxpertIndex == <<"r","e","p","o","s","i","t","o","r","y","/","u","p","d","a","t","e","-","b","e","t","a","/","g","r","a","x","p","e","r","t","/","i","n","d","e","x",".","h","t","m","l">>
\* PathRootIndex is the text "repository/update-beta/index.html"
PathRootIndex == <<"r","e","p","o","s","i","t","o","r","y","/","u","p","d","a","t","e","-","b","e","t","a","/","i","n","d","e","x",".","h","t","m","l">>
\* PathSuite is the text "repository/update-beta/graxpert-suite"
PathSuite == <<"r","e","p","o","s","i","t","o","r","y","/","u","p","d","a","t","e","-","b","e","t","a","/","g","r","a","x","p","e","r","t","-","s","u","i","t","e">>
\* PathGraxpert is the text "repository/update-beta/graxpert"
PathGraxpert == <<"r","e","p","o","s","i","t","o","r","y","/","u","p","d","a","t","e","-","b","e","t","a","/","g","r","a","x","p","e","r","t">>
\* PathRoot is the text "repository/update-beta"
PathRoot == <<"r","e","p","o","s","i","t","o","r","y","/","u","p","d","a","t","e","-","b","e","t","a">>
\* NameOldArchive is the text "20231224_GraXpertSuite.zip"
NameOldArchive == <<"2","0","2","3","1","2","2","4","_","G","r","a","X","p","e","r","t","S","u","i","t","e",".","z","i","p">>
\* TextSuiteZip is the text "_GraXpertSuite.zip"
TextSuiteZip == <<"_","G","r","a","X","p","e","r","t","S","u","i","t","e",".","z","i","p">>
\* NameAllInOne is the text "GraXpert-All-In-One.zip"
NameAllInOne == <<"G","r","a","X","p","e","r","t","-","A","l","l","-","I","n","-","O","n","e",".","z","i","p">>
\* NameSuite is the text "GraXpert-Suite.zip"
NameSuite == <<"G","r","a","X","p","e","r","t","-","S","u","i","t","e",".","z","i","p">>
\* NameDescriptor is the text "updates.xri"
NameDescriptor == <<"u","p","d","a","t","e","s",".","x","r","i">>
\* TextZipFilename is the text "_ZIP_FILENAME_"
TextZipFilename == <<"_","Z","I","P","_","F","I","L","E","N","A","M","E","_">>
\* TextSha1 is the text "_SHA1_"
TextSha1 == <<"_","S","H","A","1","_">>
\* TemplateDateChangelog is the text "_DATE__CHANGELOG_"
TemplateDateChangelog == <<"_","D","A","T","E","_","_","C","H","A","N","G","E","L","O","G","_">>
\* TextDate is the text "_DATE_"
TextDate == <<"_","D","A","T","E","_">>
\* TextChangelog is the text "_CHANGELOG_"
TextChangelog == <<"_","C","H","A","N","G","E","L","O","G","_">>
\* TwoLineChangelog is the text "fix a\nfix b"
TwoLineChangelog == <<"f","i","x"," ","a","\n","f","i","x"," ","b">>
\* TextFirstParagraph is the text "fix a</p>"
TextFirstParagraph == <<"f","i","x"," ","a","<","/","p",">">>
\* TextSrcScripts is the text "src/scripts/"
TextSrcScripts == <<"s","r","c","/","s","c","r","i","p","t","s","/">>
\* TextDocScripts is the text "doc/scripts/"
TextDocScripts == <<"d","o","c","/","s","c","r","i","p","t","s","/">>
\* TextDotZip is the text ".zip"
TextDotZip == <<".","z","i","p">>

Last(s) == s[Len(s)]
Range(s) == {s[i] : i \in 1..Len(s)}

BadPrefix(file, folder) ==
    /\ ~StartsWith(file, TextSrcScripts \o folder \o <<"/">>)
    /\ ~StartsWith(file, TextDocScripts)

UnderGXS(file) == StartsWith(file, TextGXS)

ZipReturned == pc = "returned" /\ probe.fn = "save_list_to_zip"

\* no archive anywhere in the output tree
NoArchive(fs) == \A p \in DOMAIN fs : fs[p].kind # "zip"

AllAllowed(l, folder) == \A i \in 1..Len(l) : l[i] # <<>> /\ ~BadPrefix(l[i], folder)
AllAllowedOrEmpty(l, folder) == \A i \in 1..Len(l) : l[i] = <<>> \/ ~BadPrefix(l[i], folder)
NoMissingGXS(l, dsk) == \A i \in 1..Len(l) : ~(l[i] # <<>> /\ l[i] \notin dsk /\ UnderGXS(l[i]))
Repeats(l) == \E i, j \in 1..Len(l) : i < j /\ l[i] = l[j]
RepeatsExisting(l, dsk) == \E i, j \in 1..Len(l) : i < j /\ l[i] = l[j] /\ l[i] \in dsk

\* entry j of the list is one the validation loop raises on, if it gets there
RaisesAt(l, folder, dsk, j) ==
    /\ l[j] # <<>>
    /\ \/ BadPrefix(l[j], folder)
       \/ l[j] \notin dsk /\ UnderGXS(l[j])
       \/ l[j] \in dsk /\ \E k \in 1..(j - 1) : l[k] = l[j]

AutoArchive == Join(probe.output_directory, today \o <<"_">> \o probe.script_folder \o TextDotZip)
ManualArchive ==
    Join(probe.output_directory,
         IF probe.output_directory = PathGraxpert
         THEN NameAllInOne ELSE NameSuite)

\* the listed paths that pass the prefix rule and exist on disk, in list order
Accepted(l, folder, dsk) ==
    LET Keep(f) == f # <<>> /\ ~BadPrefix(f, folder) /\ f \in dsk
    IN  SelectSeq(l, Keep)

(***************************************************************************)
(* C2: a file list with a non-empty path outside both allowed prefixes     *)
(* makes save_list_to_zip fail and write no archive, wherever the path     *)
(* sits; the error is the invalid-path error of that path when no earlier  *)
(* entry raises first.                                                     *)
(***************************************************************************)
C2_InvalidPathFailsWithoutArchive ==
    ZipReturned =>
        \A i \in 1..Len(probe.files_list) :
            (probe.files_list[i] # <<>> /\ BadPrefix(probe.files_list[i], probe.script_folder))
            => /\ ~probe.ok
               /\ NoArchive(tree)
               /\ (\A j \in 1..(i - 1) :
                      ~RaisesAt(probe.files_list, probe.script_folder, disk, j))
                  => probe.err = Line("Invalid path", probe.files_list[i])

\* an invalid path in last position, after an accepted file and a deletion
C2_Witness ==
    /\ ZipReturned
    /\ probe.script_folder = GraXpertSuite
    /\ probe.files_list = <<FHelper, FDoc, FBad>>
    /\ disk = {FHelper}
    /\ probe.err = Line("Invalid path", FBad)
    /\ NoArchive(tree)

(***************************************************************************)
(* C3 as stated: in a list whose entries all satisfy the prefix rule and   *)
(* that names no missing file under the GXS prefix, any repeated path,     *)
(* present on disk or not, makes save_list_to_zip fail with the            *)
(* duplicate-entry error and write no archive.                             *)
(***************************************************************************)
C3_AnyRepeatFails ==
    (/\ ZipReturned
     /\ AllAllowed(probe.files_list, probe.script_folder)
     /\ NoMissingGXS(probe.files_list, disk)
     /\ Repeats(probe.files_list))
    => /\ ~probe.ok
       /\ probe.err.kind = "Duplicate file"
       /\ NoArchive(tree)

(***************************************************************************)
(* C3 amended: the same, for a repeated path that exists on disk.          *)
(***************************************************************************)
C3_ExistingRepeatFails ==
    (/\ ZipReturned
     /\ AllAllowed(probe.files_list, probe.script_folder)
     /\ NoMissingGXS(probe.files_list, disk)
     /\ RepeatsExisting(probe.files_list, disk))
    => /\ ~probe.ok
       /\ probe.err.kind = "Duplicate file"
       /\ probe.err.arg \in disk
       /\ NoArchive(tree)

C3_Witness ==
    /\ ZipReturned
    /\ probe.files_list = <<FHelper, FDoc, FHelper>>
    /\ disk = {FHelper, FDoc}
    /\ probe.err = Line("Duplicate file", FHelper)

(***************************************************************************)
(* C4: in a list that otherwise passes validation, a missing path outside  *)
(* the GXS prefix is printed as a deletion, is in neither archive, and     *)
(* both archives are written; a missing path under the GXS prefix makes    *)
(* save_list_to_zip fail with the missing-file error.                      *)
(***************************************************************************)
C4_MissingFileDeletionOrError ==
    (/\ ZipReturned
     /\ AllAllowedOrEmpty(probe.files_list, probe.script_folder)
     /\ ~RepeatsExisting(probe.files_list, disk))
    => IF NoMissingGXS(probe.files_list, disk)
       THEN /\ probe.ok
            /\ IsFile(tree, AutoArchive)
            /\ IsFile(tree, ManualArchive)
            /\ \A i \in 1..Len(probe.files_list) :
                  (probe.files_list[i] # <<>> /\ probe.files_list[i] \notin disk)
                  => /\ Line("Delete", probe.files_list[i]) \in Range(printed)
                     /\ probe.files_list[i] \notin Range(tree[AutoArchive].entries)
                     /\ probe.files_list[i] \notin Range(tree[ManualArchive].entries)
       ELSE /\ ~probe.ok
            /\ probe.err.kind = "File not found"
            /\ probe.err.arg \notin disk
            /\ UnderGXS(probe.err.arg)
            /\ NoArchive(tree)

\* a deletion between two archived files
C4_Witness ==
    /\ ZipReturned
    /\ probe.files_list = <<FGxs, FHelper, FDoc>>
    /\ disk = {FGxs, FDoc}
    /\ probe.ok
    /\ Line("Delete", FHelper) \in Range(printed)
    /\ tree[AutoArchive].entries = <<FGxs, FDoc>>

(***************************************************************************)
(* C5: when save_list_to_zip returns, the automatic-install archive        *)
(* <YYYYMMDD>_<folder>.zip holds one entry per accepted path, in list      *)
(* order, under the path itself; the manual-install archive (All-In-One    *)
(* in graxpert, Suite otherwise) has the same content; the automatic       *)
(* archive's path is returned.                                             *)
(***************************************************************************)
C5_ArchivesHoldAcceptedFiles ==
    (ZipReturned /\ probe.ok)
    => /\ IsFile(tree, AutoArchive)
       /\ tree[AutoArchive].kind = "zip"
       /\ tree[AutoArchive].entries
             = Accepted(probe.files_list, probe.script_folder, disk)
       /\ ~Repeats(tree[AutoArchive].entries)
       /\ IsFile(tree, ManualArchive)
       /\ tree[ManualArchive] = tree[AutoArchive]
       /\ probe.ret = AutoArchive
       /\ Cardinality({p \in DOMAIN tree : tree[p].kind = "zip"}) = 2

C5_Witness ==
    /\ ZipReturned
    /\ probe.ok
    /\ probe.files_list = <<FDoc, <<>>, FHelper>>
    /\ probe.output_directory = Destination(UpdatesSuiteXri)
    /\ disk = {FHelper, FDoc}
    /\ tree[ManualArchive].entries = <<FDoc, FHelper>>

DescriptorWritten ==
    /\ pc = "returned"
    /\ probe.fn = "replace_and_save"
    /\ probe.outcome = "written"

WrittenText == tree[Join(ProbeDest, NameDescriptor)].text

NoTokenLeft(t) ==
    /\ ~Contains(t, TextZipFilename)
    /\ ~Contains(t, TextSha1)
    /\ ~Contains(t, TextDate)
    /\ ~Contains(t, TextChangelog)

(***************************************************************************)
(* C6 as stated: for every template and every changelog text, the          *)
(* descriptor replace_and_save writes contains none of _ZIP_FILENAME_,     *)
(* _SHA1_, _DATE_, _CHANGELOG_.                                            *)
(***************************************************************************)
C6_NoTokenRemains == DescriptorWritten => NoTokenLeft(WrittenText)

(***************************************************************************)
(* C6 amended: the same for every template and every changelog text that   *)
(* contains no underscore, the archive being <YYYYMMDD>_GraXpertSuite.zip. *)
(***************************************************************************)
C6_NoTokenRemainsWithoutUnderscore ==
    (DescriptorWritten /\ "_" \notin Range(changelog)) => NoTokenLeft(WrittenText)

\* a template of two adjacent tokens, a two-line changelog
C6_Witness ==
    /\ DescriptorWritten
    /\ probe.source.text = TemplateDateChangelog
    /\ changelog = TwoLineChangelog
    /\ Contains(WrittenText, TextFirstParagraph)
    /\ NoTokenLeft(WrittenText)

VersionsDiffer ==
    /\ helperJs.kind = "match"
    /\ changeLogTxt.kind = "match"
    /\ helperJs.version # Strip(changeLogTxt.version)

EndsWith(out, lines) ==
    /\ Len(out) >= Len(lines)
    /\ SubSeq(out, Len(out) - Len(lines) + 1, Len(out)) = lines

(***************************************************************************)
(* C1: when the version of Helper.js differs from the changelog's, the     *)
(* iteration ends in the version-mismatch failure in its first step, with  *)
(* the output tree exactly as the iteration found it.                      *)
(***************************************************************************)
C1_MismatchAbortsBeforeOutput ==
    [][(pc = "extract" /\ VersionsDiffer)
       => /\ pc' = "input"
          /\ tree' = tree
          /\ EndsWith(printed', <<Line("Wrong version", <<>>), Line("BUILD FAILED!!!", <<>>)>>)]_vars

\* a mismatch reported with the output of an earlier build still in place
C1_Witness ==
    /\ pc = "input"
    /\ VersionsDiffer
    /\ Line("Wrong version", <<>>) \in Range(printed)
    /\ Exists(tree, Join(PathGraxpert, NameOldArchive))

ErrorKinds == {"Version not found", "Change log extract failed", "Wrong version",
               "XML Parsing", "Invalid path", "File not found", "Duplicate file",
               "No such file or directory"}

AttemptReported(out) ==
    \/ /\ out # <<>>
       /\ Last(out) = Line("RUN PIXINSIGHT CODE SIGNING AGAIN TO SIGN updates.xri FILES", <<>>)
       /\ Line("BUILD FAILED!!!", <<>>) \notin Range(out)
    \/ /\ Len(out) >= 2
       /\ Last(out) = Line("BUILD FAILED!!!", <<>>)
       /\ out[Len(out) - 1].kind \in ErrorKinds
       /\ \A i \in 1..Len(out) :
             out[i].kind # "RUN PIXINSIGHT CODE SIGNING AGAIN TO SIGN updates.xri FILES"

(***************************************************************************)
(* C7: an attempt that ends in success or in a ValueError ends at the      *)
(* pause of input(), the message and the banner printed and no success     *)
(* notice on a failure; from the pause the loop goes back to the version   *)
(* extraction; the program leaves the loop only on an exception that is    *)
(* not a ValueError.                                                       *)
(***************************************************************************)
C7_EveryAttemptPausesAndRestarts ==
    [][/\ pc = "input" => pc' = "extract"
       /\ pc = "extract" => pc' \in {"clear", "input", "crashed"}
       /\ pc = "clear" => pc' = "packages"
       /\ pc = "packages" => pc' \in {"packages", "input", "crashed"}
       /\ (pc # "input" /\ pc' = "input") => AttemptReported(printed')
       /\ (pc # "input" /\ pc' # "input") =>
             /\ Line("BUILD FAILED!!!", <<>>) \notin Range(printed')
             /\ SuccessNotice \notin Range(printed')
       /\ pc' = "crashed" => helperJs.kind = "absent"
       /\ pc # "crashed"]_vars

\* the loop back at the version extraction after a version-mismatch failure
\* that had followed a complete build (whose output is still there)
C7_Witness ==
    /\ pc = "extract"
    /\ Exists(tree, Join(PathSuite, NameDescriptor))
    /\ ~tree[Join(PathSuite, NameDescriptor)].fresh
    /\ version = V2

Succeeded ==
    /\ pc = "input"
    /\ printed # <<>>
    /\ Last(printed) = Line("RUN PIXINSIGHT CODE SIGNING AGAIN TO SIGN updates.xri FILES", <<>>)

(***************************************************************************)
(* C8 as stated: at the end of an iteration that completes without         *)
(* failure, index.html is in repository/update-beta/graxpert, in           *)
(* repository/update-beta/graxpert-suite and in repository/update-beta.    *)
(***************************************************************************)
C8_IndexHtmlCopied ==
    Succeeded
    => /\ IsFile(tree, PathGraxpertIndex)
       /\ IsFile(tree, PathSuiteIndex)
       /\ IsFile(tree, PathRootIndex)

YieldsNoFiles(file) ==
    /\ file.kind = "ok"
    /\ \A i \in 1..Len(file.items) : Strip(file.items[i]) = <<>>

(***************************************************************************)
(* C9 as stated: when the manifest at hand yields no files, the step for   *)
(* that manifest writes no archive and no descriptor, still creates the    *)
(* manifest's output subdirectory and goes on to the next manifest.        *)
(***************************************************************************)
C9_EmptyManifestIsSkipped ==
    [][(pc = "packages" /\ idx <= 2 /\ YieldsNoFiles(manifests[idx]))
       => /\ pc' = "packages"
          /\ idx' = idx + 1
          /\ IsDir(tree', Destination(ManifestNames[idx]))
          /\ \A p \in DOMAIN tree' :
                StartsWith(p, Destination(ManifestNames[idx]) \o <<"/">>) => p \in DOMAIN tree]_vars

PackageComplete(dir, manual) ==
    /\ IsDir(tree, dir)
    /\ IsFile(tree, Join(dir, today \o TextSuiteZip))
    /\ tree[Join(dir, today \o TextSuiteZip)].kind = "zip"
    /\ IsFile(tree, Join(dir, manual))
    /\ tree[Join(dir, manual)].kind = "zip"
    /\ IsFile(tree, Join(dir, NameDescriptor))
    /\ tree[Join(dir, NameDescriptor)].kind = "text"

(***************************************************************************)
(* C10: when an iteration reaches the success notice, everything under the *)
(* output root was written in that iteration, both package directories     *)
(* hold an automatic-install archive, a manual-install archive and an      *)
(* updates.xri descriptor, and neither "does not exist" branch of          *)
(* replace_and_save was taken.                                             *)
(***************************************************************************)
C10_SuccessMeansFreshCompleteOutput ==
    Succeeded
    => /\ \A p \in DOMAIN tree : StartsWith(p, PathRoot) => tree[p].fresh
       /\ PackageComplete(PathGraxpert, NameAllInOne)
       /\ PackageComplete(PathSuite, NameSuite)
       /\ \A i \in 1..Len(printed) : printed[i].kind # "does not exist"

\* a success that printed a deletion, with no archive of an earlier day left
C10_Witness ==
    /\ Succeeded
    /\ ~Exists(tree, Join(PathGraxpert, NameOldArchive))
    /\ Line("Delete", FHelper) \in Range(printed)
    /\ version = V1
====
